---- MODULE Spec2Model ----
(***************************************************************************)
(* PromisedDataChannel (src/src/promised-datachannel.ts): the correlated   *)
(* request/response protocol over an RTCDataChannel.                       *)
(*                                                                         *)
(* One wrapper instance is the caller (send(), close(), its timers and its *)
(* _handleResponse); the instance at the other end of the raw channel is   *)
(* the receiver (_handleRequest and the application's "message" handler).  *)
(* All handlers run to completion on one event loop, so each is one action.*)
(***************************************************************************)
EXTENDS Integers, Sequences, FiniteSets, TLC

\* ------------------------------------------------------------------ bounds
MaxCalls == 2          \* send() invocations that register a pending call
NumIds == 2            \* distinct values drawn for String(Math.random()).slice(2, 6)

\* ------------------------------------------------------- program constants
REQUEST == 0
SUCCESS_RESPONSE == 1
ERROR_RESPONSE == 2
TimeoutBase == 1000
TimeoutStep == 500

Ids == 1..NumIds

\* JavaScript values an application passes as data: a JSON string, NaN, and an
\* object with a circular reference.
Values == {"text", "NaN", "circular"}
\* Messages of the Error objects a handler throws or passes to fail().
HandlerErrors == {"boom"}

VARIABLES
  calls,         \* the promises returned by send() that reached registration
  sentRequests,  \* this._sentRequests: id -> index of the registered call, 0 = no entry
  closed,        \* this._closed
  readyState,    \* this._dc.readyState of the caller
  peerState,     \* readyState of the receiver's end of the raw channel
  wireOut,       \* messages in flight caller -> receiver
  wireIn,        \* messages in flight receiver -> caller
  held,          \* succeed/fail callback pairs a handler kept for later
  last           \* the handler that ran in the latest step, and its outcome

vars == <<calls, sentRequests, closed, readyState, peerState, wireOut, wireIn,
          held, last>>

\* The state of the chunked transfer channel.
VARIABLES
  chunkSize,       \* bytes per CHUNK_DATA frame
  threshold,       \* the raw channel's backpressure threshold
  bufferedAmount,  \* bytes queued to send in the raw channel
  sendQueue,       \* sendTransfer() invocations not yet completed, in call order
  requested,       \* every sendTransfer() invocation so far, in call order
  frames,          \* frames in flight sender -> receiver
  sent,            \* every frame the sender handed to the raw channel, in order
  transfers,       \* the receiver's Transfer records: transfer id -> record
  emitted          \* completed transfers delivered to the application, in order

chunkVars == <<chunkSize, threshold, bufferedAmount, sendQueue, requested, frames,
               sent, transfers, emitted>>

\* --------------------------------------------------------------- JSON codec
\* JSON.stringify throws on a circular structure.
CanStringify(v) == v # "circular"

\* JSON.stringify writes NaN as null.
JSONValue(v) == IF v = "NaN" THEN "null" ELSE v

\* JSON.stringify({type, id, data}) followed by the peer's JSON.parse: a
\* property whose value is undefined is left out of the text.
JSONData(type, id, data) ==
  IF data = "undefined"
    THEN [type |-> type, id |-> id]
    ELSE [type |-> type, id |-> id, data |-> JSONValue(data)]

\* JSON.stringify({type: ERROR_RESPONSE, id, err}) and JSON.parse.
JSONErr(id, err) == [type |-> ERROR_RESPONSE, id |-> id, err |-> err]

\* Error.prototype.toString(): "Error: " + message.
ErrToString(e) == "Error: " \o e

\* response.data of a parsed envelope: undefined when the key is absent.
DataOf(msg) == IF "data" \in DOMAIN msg THEN msg.data ELSE "undefined"

\* ------------------------------------------------------------------ helpers
Size(m) == Cardinality({i \in Ids : m[i] # 0})

\* const timeout = 1000 + 500 * this._sentRequests.size
Timeout(size) == TimeoutBase + TimeoutStep * size

Max(a, b) == IF a > b THEN a ELSE b

Op(op, c, res) == [op |-> op, c |-> c, res |-> res]

\* ------------------------------------------------------------------ initial
Init ==
  /\ calls = <<>>
  /\ sentRequests = [i \in Ids |-> 0]
  /\ closed = FALSE
  /\ readyState = "connecting"
  /\ peerState = "open"
  /\ wireOut = <<>>
  /\ wireIn = <<>>
  /\ held = {}
  /\ last = Op("new", 0, "")

\* ------------------------------------------------------------------- send()
\* send() with its first two checks in the other order.
SendErrorOpenFirst(data) ==
  IF readyState # "open" THEN "Not opened!"
  ELSE IF closed THEN "Closed!"
  ELSE IF ~CanStringify(data) THEN "Can not convert to JSON!"
  ELSE ""

\* The checks send() makes before it touches the wire; "" when it passes.
SendError(data) ==
  IF closed THEN "Closed!"
  ELSE IF readyState # "open" THEN "Not opened!"
  ELSE IF ~CanStringify(data) THEN "Can not convert to JSON!"
  ELSE ""

NewCall(id) ==
  [id |-> id, k |-> Size(sentRequests),
   status |-> "pending", result |-> "", by |-> 0,
   timer |-> "armed", remaining |-> Timeout(Size(sentRequests)), elapsed |-> 0]

Send(id, data) ==
  /\ LET err == SendError(data)
         c == Len(calls) + 1
     IN IF err # ""
          THEN /\ last' = Op("send", 0, err)
               /\ UNCHANGED <<calls, sentRequests, closed, readyState, peerState,
                              wireOut, wireIn, held>>
          ELSE /\ c <= MaxCalls
               /\ wireOut' = Append(wireOut, [msg |-> JSONData(REQUEST, id, data), call |-> c])
               /\ calls' = Append(calls, NewCall(id))
               /\ sentRequests' = [sentRequests EXCEPT ![id] = c]
               /\ last' = Op("send", c, "")
               /\ UNCHANGED <<closed, readyState, peerState, wireIn, held>>
  /\ UNCHANGED chunkVars

\* ------------------------------------------------- the sentRequest closures
\* A promise settles once: resolve()/reject() on a settled promise does nothing.
Settle(cs, c, status, result, by) ==
  IF cs[c].status = "pending"
    THEN [cs EXCEPT ![c].status = status, ![c].result = result, ![c].by = by]
    ELSE cs

\* window.clearTimeout(sentRequest.timer): cancels a timer that has not fired.
ClearTimer(cs, c) ==
  IF cs[c].timer = "armed" THEN [cs EXCEPT ![c].timer = "cleared"] ELSE cs

\* this._sentRequests.delete(request.id)
Delete(m, id) == [m EXCEPT ![id] = 0]

\* sentRequest.resolve(res) / sentRequest.reject(err) of call c, run for the
\* response that answers request `by`.
Complete(c, status, result, by) ==
  IF sentRequests[calls[c].id] = 0
    THEN UNCHANGED <<calls, sentRequests>>
    ELSE /\ sentRequests' = Delete(sentRequests, calls[c].id)
         /\ calls' = Settle(ClearTimer(calls, c), c, status, result, by)

\* ------------------------------------------------------- the timer callback
\* setTimeout never runs the callback before the delay has passed.
TimerDue(c) == calls[c].timer = "armed" /\ calls[c].remaining = 0

TimerFire(c) ==
  /\ c \in 1..Len(calls)
  /\ TimerDue(c)
  /\ IF sentRequests[calls[c].id] = 0
       THEN /\ calls' = [calls EXCEPT ![c].timer = "fired"]
            /\ UNCHANGED sentRequests
       ELSE /\ sentRequests' = Delete(sentRequests, calls[c].id)
            /\ calls' = Settle([calls EXCEPT ![c].timer = "fired"], c, "rejected", "Timeout!", 0)
  /\ last' = Op("timer", c, "")
  /\ UNCHANGED <<closed, readyState, peerState, wireOut, wireIn, held>>
  /\ UNCHANGED chunkVars

\* Time passes by one TimeoutStep for every armed timer.
Tick ==
  /\ \E c \in 1..Len(calls) : calls[c].timer = "armed" /\ calls[c].remaining > 0
  /\ calls' = [c \in 1..Len(calls) |->
                 IF calls[c].timer = "armed"
                   THEN [calls[c] EXCEPT !.remaining = Max(0, @ - TimeoutStep),
                                         !.elapsed = IF calls[c].remaining > 0 THEN @ + TimeoutStep ELSE @]
                   ELSE calls[c]]
  /\ last' = Op("tick", 0, "")
  /\ UNCHANGED <<sentRequests, closed, readyState, peerState, wireOut, wireIn,
                 held>>
  /\ UNCHANGED chunkVars

\* ------------------------------------------------------------------ close()
\* The calls whose sentRequest is a value of the map.
Registered == {sentRequests[i] : i \in {j \in Ids : sentRequests[j] # 0}}

\* sentRequest.close() that rejects without clearTimeout().
CloseAllKeepTimers(cs) ==
  [c \in 1..Len(cs) |->
     IF c \in Registered
       THEN Settle(cs, c, "rejected", "Closed!", 0)[c]
       ELSE cs[c]]

\* sentRequest.close() for every value of the map, then clear().
CloseAll(cs) ==
  [c \in 1..Len(cs) |->
     IF c \in Registered
       THEN Settle(ClearTimer(cs, c), c, "rejected", "Closed!", 0)[c]
       ELSE cs[c]]

\* BasedDataChannel.close(): marks the wrapper closed and closes the raw channel.
SuperClose ==
  /\ closed' = TRUE
  /\ readyState' = IF readyState = "closed" THEN "closed" ELSE "closing"

Close ==
  /\ calls' = CloseAll(calls)
  /\ sentRequests' = [i \in Ids |-> 0]
  /\ SuperClose
  /\ last' = Op("close", 0, "")
  /\ UNCHANGED <<peerState, wireOut, wireIn, held>>
  /\ UNCHANGED chunkVars

\* --------------------------------------------------------- _handleResponse
\* _handleResponse without its "err" branch: every response resolves.
HandleResponseResolveOnly ==
  /\ wireIn # <<>>
  /\ readyState \in {"open", "closing"}
  /\ LET msg == Head(wireIn).msg
         by == Head(wireIn).call
         c == sentRequests[msg.id]
     IN /\ IF c = 0
             THEN UNCHANGED <<calls, sentRequests>>
             ELSE Complete(c, "resolved", DataOf(msg), by)
        /\ last' = Op("response", by, IF c = 0 THEN "not found" ELSE "found")
  /\ wireIn' = Tail(wireIn)
  /\ UNCHANGED <<closed, readyState, peerState, wireOut, held>>
  /\ UNCHANGED chunkVars

HandleResponse ==
  /\ wireIn # <<>>
  /\ readyState \in {"open", "closing"}
  /\ LET msg == Head(wireIn).msg
         by == Head(wireIn).call
         c == sentRequests[msg.id]
     IN /\ IF c = 0
             THEN UNCHANGED <<calls, sentRequests>>
             ELSE IF "err" \in DOMAIN msg
               THEN Complete(c, "rejected", msg.err, by)
               ELSE Complete(c, "resolved", DataOf(msg), by)
        /\ last' = Op("response", by, IF c = 0 THEN "not found" ELSE "found")
  /\ wireIn' = Tail(wireIn)
  /\ UNCHANGED <<closed, readyState, peerState, wireOut, held>>
  /\ UNCHANGED chunkVars

\* ---------------------------------------------------------- _handleMessage
\* The switch with a default that falls through to _handleResponse.
RouteDefaultResponse(type) ==
  CASE type = REQUEST -> "request"
    [] OTHER -> "response"

\* The switch on evData.type: which handler an inbound envelope reaches.
Route(type) ==
  CASE type = REQUEST -> "request"
    [] type \in {SUCCESS_RESPONSE, ERROR_RESPONSE} -> "response"
    [] OTHER -> "none"

\* Kinds of envelope the wrapper does not know (those of the chunked transfer).
OtherKinds == {3, 4}

\* An envelope of another protocol arrives on the caller's channel.
HandleOther(type, id) ==
  /\ readyState \in {"open", "closing"}
  /\ IF Route(type) = "response" /\ sentRequests[id] # 0
       THEN Complete(sentRequests[id], "resolved", "undefined", 0)
       ELSE UNCHANGED <<calls, sentRequests>>
  /\ last' = Op("message", type, Route(type))
  /\ UNCHANGED <<closed, readyState, peerState, wireOut, wireIn, held>>
  /\ UNCHANGED chunkVars

\* ----------------------------------------------------------- _handleRequest
\* What the receiver puts on the wire for one completion callback or catch.
Response(msg, call, how, val) == [msg |-> msg, call |-> call, how |-> how, val |-> val]

\* The catch of _handleRequest: ERROR_RESPONSE with err.toString().
Caught(req, how, e) == Response(JSONErr(req.msg.id, ErrToString(e)), req.call, how, e)

\* succeed(data) called while the handler runs inside the try of _handleRequest.
SucceedSync(req, v) ==
  IF CanStringify(v)
    THEN <<Response(JSONData(SUCCESS_RESPONSE, req.msg.id, v), req.call, "succeed", v)>>
    ELSE <<Caught(req, "encode", "Can not convert to JSON!")>>

\* fail(err) called while the handler runs.
FailSync(req, e) == <<Response(JSONErr(req.msg.id, ErrToString(e)), req.call, "fail", e)>>

\* The envelopes one run of the application's handler produces. A handler
\* that throws after succeed() or fail() has sent its response reaches the
\* catch, which sends an ERROR_RESPONSE as well. A handler that closed the
\* channel before it throws makes this._dc.send() in the catch throw.
Handled(req, beh, v, e) ==
  CASE beh = "succeed" -> SucceedSync(req, v)
    [] beh = "fail" -> FailSync(req, e)
    [] beh = "throw" -> <<Caught(req, "throw", e)>>
    [] beh = "defer" -> <<>>
    [] beh = "succeed then throw" ->
         IF CanStringify(v) THEN SucceedSync(req, v) \o <<Caught(req, "throw after", e)>>
                            ELSE SucceedSync(req, v)
    [] beh = "fail then throw" -> FailSync(req, e) \o <<Caught(req, "throw after", e)>>
    [] beh = "close then throw" -> <<>>

Behaviours == {"succeed", "fail", "throw", "defer",
               "succeed then throw", "fail then throw", "close then throw"}

\* The handler closed the receiver's raw channel while it ran.
Closes(beh) == beh = "close then throw"

\* RTCDataChannel.send() throws InvalidStateError unless readyState is "open":
\* thrown by the send of the catch, it leaves _handleRequest and _handleMessage.
Raises(beh) == Closes(beh)

HandleRequest(beh, v, e) ==
  /\ wireOut # <<>>
  /\ peerState = "open"
  /\ LET req == Head(wireOut)
     IN /\ wireIn' = wireIn \o Handled(req, beh, v, e)
        /\ held' = IF beh = "defer" THEN held \cup {[id |-> req.msg.id, call |-> req.call]}
                                    ELSE held
        /\ last' = Op("request", req.call,
                       IF Raises(beh) THEN "raised"
                       ELSE IF beh = "succeed" /\ ~CanStringify(v) THEN "succeed unserializable"
                       ELSE beh)
  /\ peerState' = IF Closes(beh) THEN "closed" ELSE peerState
  /\ wireOut' = Tail(wireOut)
  /\ UNCHANGED <<calls, sentRequests, closed, readyState>>
  /\ UNCHANGED chunkVars

\* succeed(data) called after the handler has returned: nothing catches the
\* throw of the encode failure, nor the one of dc.send() on a channel not open.
SucceedLater(h, v) ==
  /\ h \in held
  /\ held' = held \ {h}
  /\ IF ~CanStringify(v)
       THEN /\ UNCHANGED wireIn
            /\ last' = Op("succeed later", h.call, "unserializable")
       ELSE IF peerState # "open"
         THEN /\ UNCHANGED wireIn
              /\ last' = Op("succeed later", h.call, "not open")
         ELSE /\ wireIn' = Append(wireIn, Response(JSONData(SUCCESS_RESPONSE, h.id, v),
                                                   h.call, "succeed", v))
              /\ last' = Op("succeed later", h.call, "sent")
  /\ UNCHANGED <<calls, sentRequests, closed, readyState, peerState, wireOut>>
  /\ UNCHANGED chunkVars

\* fail(err) called after the handler has returned.
FailLater(h, e) ==
  /\ h \in held
  /\ held' = held \ {h}
  /\ IF peerState = "open"
       THEN /\ wireIn' = Append(wireIn, Response(JSONErr(h.id, ErrToString(e)),
                                                 h.call, "fail", e))
            /\ last' = Op("fail later", h.call, "sent")
       ELSE /\ UNCHANGED wireIn
            /\ last' = Op("fail later", h.call, "not open")
  /\ UNCHANGED <<calls, sentRequests, closed, readyState, peerState, wireOut>>
  /\ UNCHANGED chunkVars

\* ------------------------------------------------------ the raw channel
RawOpen ==
  /\ readyState = "connecting"
  /\ readyState' = "open"
  /\ last' = Op("open", 0, "")
  /\ UNCHANGED <<calls, sentRequests, closed, peerState, wireOut, wireIn, held>>
  /\ UNCHANGED chunkVars

\* The raw channel reaches "closed": the peer closed it, the transport failed,
\* or the closing procedure started by close() has finished.
RawClosed ==
  /\ readyState # "closed"
  /\ readyState' = "closed"
  /\ last' = Op("closed", 0, "")
  /\ UNCHANGED <<calls, sentRequests, closed, peerState, wireOut, wireIn, held>>
  /\ UNCHANGED chunkVars

PeerClosed ==
  /\ peerState = "open"
  /\ peerState' = "closed"
  /\ last' = Op("peer closed", 0, "")
  /\ UNCHANGED <<calls, sentRequests, closed, readyState, wireOut, wireIn, held>>
  /\ UNCHANGED chunkVars

Next ==
  \/ \E id \in Ids, data \in Values : Send(id, data)
  \/ \E c \in 1..MaxCalls : TimerFire(c)
  \/ Tick
  \/ Close
  \/ HandleResponse
  \/ \E type \in OtherKinds, id \in Ids : HandleOther(type, id)
  \/ \E beh \in Behaviours, v \in Values, e \in HandlerErrors : HandleRequest(beh, v, e)
  \/ \E h \in held, v \in Values : SucceedLater(h, v)
  \/ \E h \in held, e \in HandlerErrors : FailLater(h, e)
  \/ RawOpen
  \/ RawClosed
  \/ PeerClosed

\* ============================================================ chunked transfer
\* The Chunked Transfer Channel of the design (ChunkedDataChannel): its source
\* is not among the files modelled above, so it is modelled from the design
\* document, sections 3, 4.2 and 5.
MaxTransfers == 2      \* sendTransfer() invocations
MaxSize == 3           \* bytes of a payload
MaxChunkSize == 2      \* bytes of a chunk

CHUNK_META == 3
CHUNK_DATA == 4

\* Transfer ids: two, so that a later transfer can reuse the id of an earlier one.
TransferIds == {"a", "b"}

Min(a, b) == IF a < b THEN a ELSE b

\* The bytes of the payload of the n-th sendTransfer(), of size S.
Payload(n, S) == [i \in 1..S |-> 10 * n + i]

\* Chunk count with the division rounded down.
ChunkCountFloor(S, C) == S \div C

\* ceil(S / C)
ChunkCount(S, C) == (S + C - 1) \div C

\* The slice of the payload that chunk `index` carries.
Slice(payload, index, C) ==
  SubSeq(payload, index * C + 1, Min((index + 1) * C, Len(payload)))

NoTransfer == [open |-> FALSE]

\* Nothing sent, nothing received.
ChunkStart ==
  /\ bufferedAmount = 0
  /\ sendQueue = <<>>
  /\ requested = <<>>
  /\ frames = <<>>
  /\ sent = <<>>
  /\ transfers = [i \in TransferIds |-> NoTransfer]
  /\ emitted = <<>>

ChunkInit ==
  /\ ChunkStart
  /\ chunkSize \in 1..MaxChunkSize
  /\ threshold \in 0..1

\* A wrapper that never transfers anything.
ChunkIdle == ChunkStart /\ chunkSize = 1 /\ threshold = 0

\* What a new sendTransfer() finds the channel doing: nothing, sending an
\* earlier transfer, or waiting for low-buffer in the middle of one.
Behind ==
  IF sendQueue = <<>> THEN "none"
  ELSE IF sendQueue[1].next >= 1 /\ bufferedAmount > threshold THEN "suspended"
  ELSE "sending"

\* sendTransfer(payload, metadata): the invocation takes its place behind the
\* transfers that are still being sent.
SendTransfer(id, S) ==
  /\ Len(requested) < MaxTransfers
  /\ LET n == Len(requested) + 1
         payload == Payload(n, S)
         meta == <<"name", n>>
     IN /\ requested' = Append(requested, [payload |-> payload, meta |-> meta, behind |-> Behind])
        /\ sendQueue' = Append(sendQueue, [n |-> n, id |-> id, payload |-> payload,
                                          meta |-> meta, next |-> -1])
  /\ UNCHANGED <<chunkSize, threshold, bufferedAmount, frames, sent, transfers, emitted>>
  /\ UNCHANGED vars

\* Every queued transfer may send: no send cursor.
ActiveAny == DOMAIN sendQueue

\* The transfers that may send a frame now: the one holding the send cursor.
Active == {q \in DOMAIN sendQueue : q = 1}

Put(frame) ==
  /\ frames' = Append(frames, frame)
  /\ sent' = Append(sent, frame)

Remove(q) == [j \in 1..(Len(sendQueue) - 1) |-> IF j < q THEN sendQueue[j] ELSE sendQueue[j + 1]]

\* The queue after transfer q has sent one more frame: it completes, and gives
\* up the cursor, once its last chunk is handed to the raw channel.
Advance(q) ==
  LET t == sendQueue[q]
  IN IF t.next + 1 >= ChunkCount(Len(t.payload), chunkSize)
       THEN Remove(q)
       ELSE [sendQueue EXCEPT ![q].next = t.next + 1]

\* The CHUNK_META frame opens the transfer.
SendMeta(q) ==
  /\ q \in Active
  /\ sendQueue[q].next = -1
  /\ LET t == sendQueue[q]
     IN Put([kind |-> CHUNK_META, id |-> t.id, n |-> t.n,
             totalSize |-> Len(t.payload),
             chunkCount |-> ChunkCount(Len(t.payload), chunkSize),
             meta |-> t.meta])
  /\ sendQueue' = Advance(q)
  /\ UNCHANGED <<chunkSize, threshold, bufferedAmount, requested, transfers, emitted>>
  /\ UNCHANGED vars

\* One CHUNK_DATA frame; beyond the first chunk the sender waits while the
\* raw channel's queue is above the threshold.
SendChunk(q) ==
  /\ q \in Active
  /\ sendQueue[q].next >= 0
  /\ sendQueue[q].next = 0 \/ bufferedAmount <= threshold
  /\ LET t == sendQueue[q]
         data == Slice(t.payload, t.next, chunkSize)
     IN /\ Put([kind |-> CHUNK_DATA, id |-> t.id, n |-> t.n, index |-> t.next, data |-> data])
        /\ bufferedAmount' = bufferedAmount + Len(data)
  /\ sendQueue' = Advance(q)
  /\ UNCHANGED <<chunkSize, threshold, requested, transfers, emitted>>
  /\ UNCHANGED vars

\* The raw channel transmits its queue and signals low-buffer.
LowBuffer ==
  /\ bufferedAmount > 0
  /\ bufferedAmount' = 0
  /\ UNCHANGED <<chunkSize, threshold, sendQueue, requested, frames, sent, transfers, emitted>>
  /\ UNCHANGED vars

RECURSIVE Assemble(_, _)
\* The chunks 0..count-1 of a record, joined in index order.
Assemble(chunks, count) ==
  IF count = 0 THEN <<>> ELSE Assemble(chunks, count - 1) \o chunks[count - 1]

\* Inbound CHUNK_META: the latest metadata for an id wins.
\* Whether a transfer of no chunks completes with its metadata frame is left
\* open by the design: both outcomes are allowed.
ReceiveMeta(f) ==
  \/ /\ transfers' = [transfers EXCEPT ![f.id] =
                        [open |-> TRUE, n |-> f.n, totalSize |-> f.totalSize,
                         chunkCount |-> f.chunkCount, meta |-> f.meta,
                         received |-> {}, chunks |-> [i \in 0..(f.chunkCount - 1) |-> <<>>]]]
     /\ UNCHANGED emitted
  \/ /\ f.chunkCount = 0
     /\ emitted' = Append(emitted, [n |-> f.n, payload |-> <<>>, meta |-> f.meta])
     /\ transfers' = [transfers EXCEPT ![f.id] = NoTransfer]

\* Inbound CHUNK_DATA: dropped without a record, ignored when out of range or
\* a duplicate; the transfer is emitted and discarded with its last chunk.
ReceiveData(f) ==
  LET t == transfers[f.id]
  IN IF ~t.open \/ f.index \notin 0..(t.chunkCount - 1) \/ f.index \in t.received
       THEN UNCHANGED <<transfers, emitted>>
       ELSE LET chunks == [t.chunks EXCEPT ![f.index] = f.data]
                received == t.received \cup {f.index}
            IN IF Cardinality(received) = t.chunkCount
                 THEN /\ emitted' = Append(emitted,
                                          [n |-> t.n, payload |-> Assemble(chunks, t.chunkCount),
                                           meta |-> t.meta])
                      /\ transfers' = [transfers EXCEPT ![f.id] = NoTransfer]
                 ELSE /\ transfers' = [transfers EXCEPT ![f.id].chunks = chunks,
                                                        ![f.id].received = received]
                      /\ UNCHANGED emitted

Receive ==
  /\ frames # <<>>
  /\ IF Head(frames).kind = CHUNK_META THEN ReceiveMeta(Head(frames))
                                       ELSE ReceiveData(Head(frames))
  /\ frames' = Tail(frames)
  /\ UNCHANGED <<chunkSize, threshold, bufferedAmount, sendQueue, requested, sent>>
  /\ UNCHANGED vars

ChunkNext ==
  \/ \E id \in TransferIds, S \in 0..MaxSize : SendTransfer(id, S)
  \/ \E q \in 1..MaxTransfers : SendMeta(q)
  \/ \E q \in 1..MaxTransfers : SendChunk(q)
  \/ LowBuffer
  \/ Receive

\* ============================================================ specifications
allVars == <<vars, chunkVars>>

\* Construction of a channel used for correlated requests only.
SpecInit == Init /\ ChunkIdle

Spec == SpecInit /\ [][Next]_allVars

\* Construction of a channel used for chunked transfers only.
ChunkSpecInit == Init /\ ChunkInit

ChunkSpec == ChunkSpecInit /\ [][ChunkNext]_allVars

\* Timers that are due fire, time passes while a timer waits, and a message
\* event is dispatched while the channel delivers.
FairSpec ==
  /\ Spec
  /\ \A c \in 1..MaxCalls : WF_vars(TimerFire(c))
  /\ WF_vars(Tick)

\* ------------------------------------------------------------------ claims
Calls == 1..Len(calls)

\* _handleResponse runs for the head of wireIn in this step.
ResponseStep == wireIn # <<>> /\ wireIn' = Tail(wireIn)

\* The receiver has put no response to call c on the wire: its request is in
\* flight, or its handler returned without completing it.
Unanswered(c) ==
  \/ \E i \in 1..Len(wireOut) : wireOut[i].call = c
  \/ \E h \in held : h.call = c

\* The call was rejected with the error text of an ERROR_RESPONSE.
RemoteRejected(c) ==
  calls[c].status = "rejected" /\ calls[c].result \notin {"Timeout!", "Closed!"}

\* C1: a SUCCESS_RESPONSE the receiver's handler produced with succeed(R), R a
\* value JSON carries unchanged, that arrives while its call is pending with the
\* timer still armed, resolves that call to exactly R and removes its entry.
C1_ResolvesToResponse ==
  [][ResponseStep =>
       LET r == Head(wireIn)
           c == r.call
       IN (r.how = "succeed" /\ r.val = "text"
             /\ calls[c].status = "pending" /\ calls[c].timer = "armed")
            => /\ calls'[c].status = "resolved"
               /\ calls'[c].result = r.val
               /\ sentRequests'[calls[c].id] # c]_vars

\* C2: a call the receiver never answers, on a wrapper that is not closed, is
\* rejected with Timeout once its timer has fired, at least 1000 + 500 x k ms
\* after it was registered, and its entry is gone.
C2_TimeoutAfterBackoff ==
  \A c \in Calls :
    (calls[c].timer = "fired" /\ Unanswered(c) /\ ~closed)
      => /\ calls[c].status = "rejected"
         /\ calls[c].result = "Timeout!"
         /\ calls[c].elapsed >= 1000 + 500 * calls[c].k
         /\ sentRequests[calls[c].id] # c

\* C3: every call that put its REQUEST on the wire is eventually settled, given
\* that armed timers fire.
C3_EventuallySettled ==
  \A c \in 1..MaxCalls :
    [](c \in Calls => <>(c \in Calls /\ calls[c].status # "pending"))

\* C3 as a finite run refutes it: the timer is the one event of a call that is
\* bound to occur, so a call whose timer is no longer armed has been settled.
C3_SettledOnceTimerGone ==
  \A c \in Calls : calls[c].timer # "armed" => calls[c].status # "pending"

\* C4: close() rejects every call awaiting a result with Closed and leaves the
\* pending table empty.
C4_CloseRejectsAll ==
  [][last'.op = "close" =>
       /\ \A c \in Calls :
            calls[c].status = "pending"
              => calls'[c].status = "rejected" /\ calls'[c].result = "Closed!"
       /\ \A i \in Ids : sentRequests'[i] = 0]_vars

\* C5: a response that arrives after the call it answers has timed out settles
\* no call and leaves every entry, timer and outcome as they were.
C5_LateResponseDiscarded ==
  [][(ResponseStep /\ calls[Head(wireIn).call].result = "Timeout!")
       => (calls' = calls /\ sentRequests' = sentRequests)]_vars

\* C6: a call that resolved, or was rejected with a remote error, was settled
\* by the response to its own request.
C6_MatchedToOwnRequest ==
  \A c \in Calls :
    (calls[c].status = "resolved" \/ RemoteRejected(c)) => calls[c].by = c

\* C7: the first of a call's response, timer and close() settles it; a later
\* response or timer of that call changes neither an outcome nor the pending
\* table; a response that settles a call cancels that call's timer.
C7_FirstEventDecides ==
  [][\A c \in Calls :
       LET resp == ResponseStep /\ Head(wireIn).call = c
           fire == last'.op = "timer" /\ last'.c = c
           shut == last'.op = "close"
           outcome(cs, d) == <<cs[d].status, cs[d].result>>
       IN /\ calls[c].status # "pending" => outcome(calls', c) = outcome(calls, c)
          /\ ((resp \/ fire \/ shut) /\ calls[c].status = "pending")
               => calls'[c].status # "pending"
          /\ ((resp \/ fire) /\ calls[c].status # "pending")
               => /\ sentRequests' = sentRequests
                  /\ \A d \in Calls : outcome(calls', d) = outcome(calls, d)
          /\ (resp /\ calls[c].status = "pending" /\ calls'[c].status # "pending")
               => calls'[c].timer # "armed"]_vars

\* C8 as stated: send() after close() fails with Closed, send() while the raw
\* channel is not open fails with NotOpen, and neither touches the wire, a
\* timer or the pending table.
C8_PreconditionsAsStated ==
  [][last'.op = "send" =>
       /\ closed => last'.res = "Closed!"
       /\ readyState # "open" => last'.res = "Not opened!"
       /\ (closed \/ readyState # "open")
            => UNCHANGED <<wireOut, calls, sentRequests>>]_vars

\* C8 amended: send() after close() fails with Closed; send() on a wrapper that
\* is not closed while the raw channel is not open fails with NotOpen; neither
\* touches the wire, a timer or the pending table.
C8_Preconditions ==
  [][last'.op = "send" =>
       /\ closed => last'.res = "Closed!"
       /\ (~closed /\ readyState # "open") => last'.res = "Not opened!"
       /\ (closed \/ readyState # "open")
            => UNCHANGED <<wireOut, calls, sentRequests>>]_vars

\* send() was refused with Closed on a closed wrapper whose raw channel is no
\* longer open, with a call registered before the close.
C8_Witness ==
  /\ last = Op("send", 0, "Closed!")
  /\ closed /\ readyState # "open"
  /\ Len(calls) > 0

\* C9: the ERROR_RESPONSE sent for a handler that threw, arriving while the
\* sender's call is pending with its timer armed, rejects that call with the
\* handler's error text.
C9_ThrowRejectsCall ==
  [][ResponseStep =>
       LET r == Head(wireIn)
           c == r.call
       IN (r.how = "throw" /\ calls[c].status = "pending" /\ calls[c].timer = "armed")
            => /\ r.msg.type = ERROR_RESPONSE
               /\ r.msg.id = calls[c].id
               /\ calls'[c].status = "rejected"
               /\ calls'[c].result = ErrToString(r.val)]_vars

\* C10: succeed(payload) with a payload that cannot be serialized, during the
\* handler's run or after it returned, puts an ERROR_RESPONSE with the
\* request's id on the wire.
C10_EncodeFailureReported ==
  [][((last'.op = "request" /\ last'.res = "succeed unserializable")
        \/ (last'.op = "succeed later" /\ last'.res = "unserializable"))
       => /\ Len(wireIn') = Len(wireIn) + 1
          /\ wireIn'[Len(wireIn')].msg.type = ERROR_RESPONSE
          /\ wireIn'[Len(wireIn')].msg.id = calls[last'.c].id]_vars

\* C11: a response whose id has an entry settles that entry's call by its
\* kind: SUCCESS_RESPONSE resolves it with the response's data, ERROR_RESPONSE
\* rejects it with the peer's error text, and it is rejected with a remote
\* error exactly when the kind is ERROR_RESPONSE.
C11_OutcomeByKind ==
  [][ResponseStep =>
       LET msg == Head(wireIn).msg
           c == sentRequests[msg.id]
       IN c # 0 =>
            /\ calls[c].status = "pending"
            /\ msg.type = SUCCESS_RESPONSE
                 => calls'[c].status = "resolved" /\ calls'[c].result = DataOf(msg)
            /\ msg.type = ERROR_RESPONSE
                 => calls'[c].status = "rejected" /\ calls'[c].result = msg.err
            /\ (calls'[c].status = "rejected"
                  /\ calls'[c].result \notin {"Timeout!", "Closed!"})
                 <=> msg.type = ERROR_RESPONSE]_vars

\* An ERROR_RESPONSE found its entry and rejected the call with the peer's
\* error text, while another call had been resolved by a SUCCESS_RESPONSE.
C11_Witness ==
  /\ last.op = "response" /\ last.res = "found"
  /\ \E c \in Calls : RemoteRejected(c) /\ calls[c].result = ErrToString("boom")
  /\ \E c \in Calls : calls[c].status = "resolved"

\* The envelope the receiver put on the wire last in this step.
Sent == wireIn'[Len(wireIn')]

\* C14: for one inbound REQUEST the receiver puts at most one response on the
\* wire: at most one while the handler runs, none later if one was sent then,
\* and at most one by a completion callback called later.
C14_AtMostOneResponse ==
  [][last'.op \in {"request", "succeed later", "fail later"} =>
       /\ Len(wireIn') <= Len(wireIn) + 1
       /\ Len(wireIn') > Len(wireIn) => \A h \in held' : h.call # last'.c]_vars

\* C15: no failure on the receiving side leaves the inbound message handler:
\* _handleMessage returns without raising, and a handler that threw, or whose
\* response could not be serialized, is answered with an ERROR_RESPONSE.
C15_NoFailureEscapes ==
  [][last'.op = "request" =>
       /\ last'.res # "raised"
       /\ last'.res \in {"throw", "succeed unserializable"}
            => /\ Len(wireIn') = Len(wireIn) + 1
               /\ Sent.msg.type = ERROR_RESPONSE
               /\ Sent.msg.id = Head(wireOut).msg.id]_vars

\* C16: a response whose id has no entry, and an envelope of a kind that is
\* none of REQUEST, SUCCESS_RESPONSE, ERROR_RESPONSE, leaves the pending table,
\* the calls with their timers and outcomes, and the outbound wire unchanged,
\* and settles no call.
C16_UnroutableIgnored ==
  [][((ResponseStep /\ sentRequests[Head(wireIn).msg.id] = 0)
        \/ (last'.op = "message"
              /\ last'.c \notin {REQUEST, SUCCESS_RESPONSE, ERROR_RESPONSE}))
       => UNCHANGED <<calls, sentRequests, wireOut>>]_vars

\* A response found no entry under its id while another call was registered
\* with its timer armed.
C16_Witness ==
  /\ last.op = "response" /\ last.res = "not found"
  /\ \E c \in Registered : calls[c].status = "pending" /\ calls[c].timer = "armed"

\* C17: once close() has run the pending table is empty in every state, no
\* call is settled any more (so none is rejected with Timeout, and a response
\* arriving later settles nothing), the timer of every call close() rejected is
\* cancelled, and send() fails with Closed without registering a call.
C17_AfterClose ==
  [][/\ closed' => \A i \in Ids : sentRequests'[i] = 0
     /\ closed => \A c \in Calls :
                    /\ calls'[c].status = calls[c].status
                    /\ calls'[c].result = calls[c].result
     /\ last'.op = "close"
          => \A c \in Calls :
               (calls[c].status = "pending" /\ calls'[c].result = "Closed!")
                 => calls'[c].timer = "cleared"
     /\ (closed /\ last'.op = "send")
          => /\ last'.res = "Closed!"
             /\ Len(calls') = Len(calls)
             /\ wireOut' = wireOut]_vars

\* After close() rejected a call with Closed and cancelled its timer, a
\* response arrived and found no entry.
C17_Witness ==
  /\ closed
  /\ last.op = "response" /\ last.res = "not found"
  /\ \E c \in Calls : calls[c].result = "Closed!" /\ calls[c].timer = "cleared"

\* C18: the timer of one call removes no entry of another call.
C18_TimerRemovesOwnEntry ==
  [][last'.op = "timer" =>
       \A d \in Calls :
         (d # last'.c /\ sentRequests[calls[d].id] = d)
           => /\ sentRequests'[calls[d].id] = d
              /\ calls'[d] = calls[d]]_vars

\* C19: when the raw channel closes and close() was not called, the calls and
\* their entries stay as they are with their timers armed, and a call still
\* pending when its timer fires is then rejected with Timeout.
C19_RawCloseLeavesTimeouts ==
  [][/\ (last'.op = "closed" /\ ~closed)
          => /\ calls' = calls /\ sentRequests' = sentRequests
             /\ \A c \in Registered : calls[c].timer = "armed"
     /\ (last'.op = "timer" /\ ~closed /\ readyState = "closed"
           /\ calls[last'.c].status = "pending")
          => /\ calls'[last'.c].status = "rejected"
             /\ calls'[last'.c].result = "Timeout!"]_vars
\* ------------------------------------------------------------ C12
\* The frames the sender handed to the raw channel for its n-th transfer.
FramesOf(n) == SelectSeq(sent, LAMBDA f : f.n = n)

\* The n-th sendTransfer() has sent its last frame.
SendComplete(n) ==
  /\ n \in DOMAIN requested
  /\ \A q \in DOMAIN sendQueue : sendQueue[q].n # n

\* Every frame of the n-th transfer has reached the receiver.
AllReceived(n) ==
  /\ SendComplete(n)
  /\ \A i \in DOMAIN frames : frames[i].n # n

\* The completed transfers the receiver emitted for the n-th transfer.
EmittedFor(n) == {j \in DOMAIN emitted : emitted[j].n = n}

====
